---- MODULE Spec2Model ----
(***************************************************************************)
(* State-machine model of the SSRF guard safeFetch (lib/safeFetch.ts) of   *)
(* hardened-nextjs: URL gate, DNS resolution and first-pass                *)
(* classification, raw TCP handshake with a 3 s timer and post-handshake   *)
(* classification of the observed peer, then the native fetch of the       *)
(* original URL.  The DNS zone of the target hostname and the peer the     *)
(* transport layer reports are controlled by the environment.              *)
(***************************************************************************)
EXTENDS Integers, Sequences, FiniteSets, TLC

\* ------------------------------------------------------------------ bounds
MaxAnswers == 2      \* longest DNS answer (number of A records)
MaxCalls   == 2      \* calls the caller makes one after the other
MaxElapsed == 3000   \* the clock of a handshake is followed until here (ms)
TickMs     == 1500   \* granularity of the clock (ms)
MaxRedirects == 1    \* longest chain of redirects a fetch is led through
RlTickMs   == 30000  \* granularity of the clock of the rate limiter (ms)
MaxNow     == 90000  \* the clock of the rate limiter is followed until here

\* ------------------------------------------------------ program constants
HANDSHAKE_PORT == 443
HANDSHAKE_TIMEOUT_MS == 3000
RATE_LIMIT_MAX == 10
RATE_LIMIT_WINDOW == 60000
MAX_AMOUNT == 1000000
MockBalance == 50000
DESCRIPTION_MAX == 200

\* ------------------------------------------------------- callers of guard
\* Two requests for the dashboard can be rendered at once; the page of one
\* request calls the guard once, a user reloading it calls it again.
Callers == {1, 2}
OneCaller == {1}

\* ---------------------------------------------------------------- strings
\* A JavaScript string is a sequence of one-character strings, so that the
\* regular expression PRIVATE is evaluated on text, as the code does.
DigitChars == <<"0", "1", "2", "3", "4", "5", "6", "7", "8", "9">>

RECURSIVE Dec(_)
Dec(n) == IF n < 10 THEN <<DigitChars[n + 1]>>
          ELSE Dec(n \div 10) \o <<DigitChars[(n % 10) + 1]>>

\* Dotted-quad text of an IPv4 address, as dns.resolve4 and
\* socket.remoteAddress deliver it.
Dotted(o) == Dec(o[1]) \o <<".">> \o Dec(o[2]) \o <<".">> \o
             Dec(o[3]) \o <<".">> \o Dec(o[4])

StartsWith(s, p) == Len(s) >= Len(p) /\ SubSeq(s, 1, Len(p)) = p

\* The expression without 3[0-1] in the alternation:
\* /^(10\.|172\.(1[6-9]|2[0-9])\.|192\.168\.|127\.|169\.254\.)/
PRIVATE_NoThirties(s) ==
    \/ StartsWith(s, <<"1", "0", ".">>)
    \/ /\ StartsWith(s, <<"1", "7", "2", ".">>)
       /\ Len(s) >= 7
       /\ \/ s[5] = "1" /\ s[6] \in {"6", "7", "8", "9"}
          \/ s[5] = "2" /\ s[6] \in {"0", "1", "2", "3", "4", "5", "6", "7", "8", "9"}
       /\ s[7] = "."
    \/ StartsWith(s, <<"1", "9", "2", ".", "1", "6", "8", ".">>)
    \/ StartsWith(s, <<"1", "2", "7", ".">>)
    \/ StartsWith(s, <<"1", "6", "9", ".", "2", "5", "4", ".">>)

\* The expression without the alternation on the second octet of 172.x:
\* /^(10\.|172\.|192\.168\.|127\.|169\.254\.)/
PRIVATE_Any172(s) ==
    \/ StartsWith(s, <<"1", "0", ".">>)
    \/ StartsWith(s, <<"1", "7", "2", ".">>)
    \/ StartsWith(s, <<"1", "9", "2", ".", "1", "6", "8", ".">>)
    \/ StartsWith(s, <<"1", "2", "7", ".">>)
    \/ StartsWith(s, <<"1", "6", "9", ".", "2", "5", "4", ".">>)

\* /^(10\.|172\.(1[6-9]|2[0-9]|3[0-1])\.|192\.168\.|127\.|169\.254\.)/
PRIVATE(s) ==
    \/ StartsWith(s, <<"1", "0", ".">>)
    \/ /\ StartsWith(s, <<"1", "7", "2", ".">>)
       /\ Len(s) >= 7
       /\ \/ s[5] = "1" /\ s[6] \in {"6", "7", "8", "9"}
          \/ s[5] = "2" /\ s[6] \in {"0", "1", "2", "3", "4", "5", "6", "7", "8", "9"}
          \/ s[5] = "3" /\ s[6] \in {"0", "1"}
       /\ s[7] = "."
    \/ StartsWith(s, <<"1", "9", "2", ".", "1", "6", "8", ".">>)
    \/ StartsWith(s, <<"1", "2", "7", ".">>)
    \/ StartsWith(s, <<"1", "6", "9", ".", "2", "5", "4", ".">>)

\* ------------------------------------------------------------ environment
\* IPv4 addresses the environment can serve or connect: two public ones
\* (172.32.0.1 lies just outside 172.16.0.0/12) and one in each range the
\* guard is meant to refuse.
PublicOctets  == { <<93, 184, 216, 34>>, <<172, 32, 0, 1>> }
PrivateOctets == { <<10, 0, 0, 1>>, <<172, 16, 0, 1>>, <<192, 168, 1, 1>>,
                   <<127, 0, 0, 1>>, <<169, 254, 169, 254>> }
AddrOctets    == PublicOctets \cup PrivateOctets
Addrs         == { Dotted(o) : o \in AddrOctets }

\* "::1", the IPv6 loopback, which a dual-stack host reports for localhost.
LOOPBACK6 == <<":", ":", "1">>
\* "::ffff:10.0.0.1", the text a dual-stack socket gives for the IPv4 peer
\* 10.0.0.1.
MAPPED10  == <<":", ":", "f", "f", "f", "f", ":">> \o Dotted(<<10, 0, 0, 1>>)
PeerAddrs == Addrs \cup {LOOPBACK6, MAPPED10}

\* No address: `undefined' in the code (ips[0] of an empty array, a
\* remoteAddress not yet read).
NoAddr == <<>>

\* Answers of the zone: the lookup fails, or yields up to MaxAnswers records.
\* A record set holds no record twice (RFC 2181, 5), and the zones followed
\* here hold at most one private record, at any position.
AnswerSeqs == { a \in UNION { [1..n -> Addrs] : n \in 0..MaxAnswers } :
                  /\ \A i, j \in DOMAIN a : a[i] = a[j] => i = j
                  /\ Cardinality({ i \in DOMAIN a : PRIVATE(a[i]) }) <= 1 }
DnsStates  == { [ok |-> FALSE, addrs |-> <<>>] } \cup
              { [ok |-> TRUE, addrs |-> a] : a \in AnswerSeqs }

\* Raw inputs and what `new URL(raw)' makes of them.
RawInputs == { "not a url", "https://", "http://evil.example/a.png",
               "ftp://evil.example/a.png", "https://evil.example/a.png",
               "https://10.0.0.1/admin" }

URLParse(r) ==
    CASE r = "http://evil.example/a.png"  ->
           [ok |-> TRUE, protocol |-> "http:", hostname |-> "evil.example", port |-> 0]
      [] r = "ftp://evil.example/a.png"   ->
           [ok |-> TRUE, protocol |-> "ftp:", hostname |-> "evil.example", port |-> 0]
      [] r = "https://evil.example/a.png" ->
           [ok |-> TRUE, protocol |-> "https:", hostname |-> "evil.example", port |-> 0]
      [] r = "https://10.0.0.1/admin" ->
           [ok |-> TRUE, protocol |-> "https:", hostname |-> "10.0.0.1", port |-> 0]
      [] r = "https://evil.example:8443/a.png" ->
           [ok |-> TRUE, protocol |-> "https:", hostname |-> "evil.example", port |-> 8443]
      [] OTHER -> [ok |-> FALSE, protocol |-> "", hostname |-> "", port |-> 0]

\* The address a hostname is, when it is an IPv4 literal.
HostLiteral(h) == IF h = "10.0.0.1" THEN Dotted(<<10, 0, 0, 1>>) ELSE NoAddr

\* Responses of the server of the avatar, and the Location a response with
\* a 3xx status can name.
Responses == { [contentType |-> "image/png", body |-> "PNG-bytes"],
               [contentType |-> "text/html", body |-> "<html>"] }
NoResponse == [contentType |-> "", body |-> ""]
RedirectTargets == { "http://169.254.169.254/latest/meta-data/" }
RedirectChains  == UNION { [1..n -> RedirectTargets] : n \in 0..MaxRedirects }

\* No call came before, or it failed.
NoLast == [ok |-> FALSE, raw |-> ""]

\* Messages of the errors the call rejects with.
ERR_INVALID_URL == "Invalid URL"
ERR_SCHEME      == "Apenas HTTPS permitido"
ERR_DNS         == "queryA ENOTFOUND"
ERR_FIRST_PASS  == "IP privado na primeira resolucao"
ERR_TIMEOUT     == "timeout handshake"
ERR_SOCKET      == "connect ECONNREFUSED"
ERR_POST        == "IP privado apos handshake"
ERR_FETCH       == "fetch failed"
NoErr           == ""

\* ------------------------------------------------------------------ state
VARIABLES
    dns,        \* current answer of the zone for evil.example
    pc,         \* per call: idle, resolving, connecting, fetching, done, failed
    raw,        \* per call: the argument
    ips,        \* per call: result of dns.resolve4
    target,     \* per call: ips[0]
    port,       \* per call: port socket.connect was given
    sock,       \* per call: none, connecting, ended, destroyed
    timer,      \* per call: none, armed, cleared, fired
    elapsed,    \* per call: ms since socket.connect was called
    remote,     \* per call: socket.remoteAddress read in the connect callback
    err,        \* per call: message of the error the call rejected with
    phases,     \* per call: phases passed so far
    lookups,    \* per call: dns.resolve4 calls
    connects,   \* per call: socket.connect calls
    fetches,    \* per call: fetch calls
    fetchPeer,  \* per call: address the connection of fetch reached
    abandoned,  \* per call: the caller stopped waiting for the result
    callsMade,  \* calls started so far
    requested,  \* per call: URLs fetch has sent a request for, in order
    served,     \* per call: response the server reached by fetch sent
    result,     \* per call: response safeFetch resolved with
    last        \* the URL the call before this one fetched, if it did

\* --------------------------------------------- the transfer Server Action
\* Invocations of transferFunds that can be in progress at once.
Transfers == {1, 2}
OneTransfer == {1}

VARIABLES
    rateLimitMap, \* per user id: the entry of the Map, NoEntry when it has none
    now,          \* Date.now(), in ms since the process started
    tfpc,         \* per invocation: where it is
    payload,      \* per invocation: the argument of the call
    session,      \* per invocation: what its await of getSession gave
    transferResult, \* per invocation: what the promise settled with
    steps,        \* per invocation: the checks it has made, in order
    opened,       \* per user id: the time of the call that opened the window
    admitted      \* per user id: calls checkRateLimit let through since then

tfVars == << rateLimitMap, now, tfpc, payload, session, transferResult, steps, opened,
             admitted >>

Users == { "user-123", "user-456" }
NoEntry == [count |-> 0, resetAt |-> 0]
NoPayload == [shape |-> "none"]
NoSession == [userId |-> "", roles |-> {}]
NoResult == [kind |-> "pending"]

vars == << dns, pc, raw, ips, target, port, sock, timer, elapsed, remote, err,
           phases, lookups, connects, fetches, fetchPeer, abandoned,
           callsMade, requested, served, result, last, tfVars >>

\* The state before the first call, in a zone that is one of `zones'.
InitWith(zones) ==
    /\ dns \in zones
    /\ pc = [c \in Callers |-> "idle"]
    /\ raw = [c \in Callers |-> ""]
    /\ ips = [c \in Callers |-> <<>>]
    /\ target = [c \in Callers |-> NoAddr]
    /\ port = [c \in Callers |-> 0]
    /\ sock = [c \in Callers |-> "none"]
    /\ timer = [c \in Callers |-> "none"]
    /\ elapsed = [c \in Callers |-> 0]
    /\ remote = [c \in Callers |-> NoAddr]
    /\ err = [c \in Callers |-> NoErr]
    /\ phases = [c \in Callers |-> <<>>]
    /\ lookups = [c \in Callers |-> 0]
    /\ connects = [c \in Callers |-> 0]
    /\ fetches = [c \in Callers |-> 0]
    /\ fetchPeer = [c \in Callers |-> NoAddr]
    /\ abandoned = [c \in Callers |-> FALSE]
    /\ callsMade = 0
    /\ requested = [c \in Callers |-> <<>>]
    /\ served = [c \in Callers |-> NoResponse]
    /\ result = [c \in Callers |-> NoResponse]
    /\ last = NoLast
    /\ rateLimitMap = [u \in Users |-> NoEntry]
    /\ now = 0
    /\ tfpc = [t \in Transfers |-> "idle"]
    /\ payload = [t \in Transfers |-> NoPayload]
    /\ session = [t \in Transfers |-> NoSession]
    /\ transferResult = [t \in Transfers |-> NoResult]
    /\ steps = [t \in Transfers |-> <<>>]
    /\ opened = [u \in Users |-> 0]
    /\ admitted = [u \in Users |-> 0]

Init == InitWith(DnsStates)

\* A dial of the port the URL names, 443 when it names none.
DialPort_FromUrl(r) ==
    IF URLParse(r).port = 0 THEN HANDSHAKE_PORT ELSE URLParse(r).port

\* socket.connect(443, target, ...): the port is a literal of the code,
\* whatever the URL says.
DialPort(r) == HANDSHAKE_PORT

\* A timer armed with twice the delay.
TimerDue_Late(c) == timer[c] = "armed" /\ elapsed[c] >= 2 * HANDSHAKE_TIMEOUT_MS

\* The 3 s timer of call c has expired and its callback has not run yet.
\* libuv runs expired timers before it polls for I/O, so no socket event of
\* the call is delivered while this holds.
TimerDue(c) == timer[c] = "armed" /\ elapsed[c] >= HANDSHAKE_TIMEOUT_MS

\* ---------------------------------------------------------------- actions
\* safeFetch(raw) up to its first await: new URL, which throws unless
\* `parsed', the scheme check against the protocols in `allowed', then
\* dns.resolve4 is called.
Enter(c, r, parsed, allowed) ==
    /\ pc[c] = "idle"
    /\ callsMade < MaxCalls
    /\ callsMade' = callsMade + 1
    /\ raw' = [raw EXCEPT ![c] = r]
    /\ IF ~parsed
       THEN /\ pc' = [pc EXCEPT ![c] = "failed"]
            /\ err' = [err EXCEPT ![c] = ERR_INVALID_URL]
            /\ UNCHANGED << phases, lookups >>
       ELSE IF URLParse(r).protocol \notin allowed
       THEN /\ pc' = [pc EXCEPT ![c] = "failed"]
            /\ err' = [err EXCEPT ![c] = ERR_SCHEME]
            /\ phases' = [phases EXCEPT ![c] = <<"Parsed">>]
            /\ UNCHANGED lookups
       ELSE /\ pc' = [pc EXCEPT ![c] = "resolving"]
            /\ phases' = [phases EXCEPT ![c] = <<"Parsed", "SchemeChecked">>]
            /\ lookups' = [lookups EXCEPT ![c] = @ + 1]
            /\ UNCHANGED err
    /\ UNCHANGED << dns, ips, target, port, sock, timer, elapsed, remote, connects,
                    fetches, fetchPeer, abandoned, requested, served, result,
                    last, tfVars >>

\* A scheme check that lets http through as well.
Call_AllowHttp(c, r) == Enter(c, r, URLParse(r).ok, {"https:", "http:"})

\* A call that catches the TypeError of new URL and goes on with raw.
Call_LenientParse(c, r) == Enter(c, r, TRUE, {"https:", ""})

\* new URL(raw) throws on a string that is no URL; url.protocol !== 'https:'
\* throws 'Apenas HTTPS permitido'.
Call(c, r) == Enter(c, r, URLParse(r).ok, {"https:"})

\* What dns.resolve4(h) can settle with.  The name is sent to the resolver
\* as an A query whatever it looks like: the hostname is answered from its
\* zone; for a name that is an IPv4 literal the guard makes no check of its
\* own, and the resolver finds no such name or hands the literal back.
Resolve4(h) ==
    IF HostLiteral(h) = NoAddr THEN {dns}
    ELSE { [ok |-> FALSE, addrs |-> <<>>],
           [ok |-> TRUE, addrs |-> <<HostLiteral(h)>>] }

\* The await of dns.resolve4 settles with `ans': first-pass verdict
\* `anyPrivate' on the addresses, target selection, socket, timer, error
\* handler, socket.connect.
AfterResolve(c, ans, anyPrivate) ==
    /\ pc[c] = "resolving"
    /\ IF ~ans.ok
       THEN /\ pc' = [pc EXCEPT ![c] = "failed"]
            /\ err' = [err EXCEPT ![c] = ERR_DNS]
            /\ UNCHANGED << ips, target, port, sock, timer, elapsed, phases,
                            connects >>
       ELSE /\ ips' = [ips EXCEPT ![c] = ans.addrs]
            /\ IF anyPrivate
               THEN /\ pc' = [pc EXCEPT ![c] = "failed"]
                    /\ err' = [err EXCEPT ![c] = ERR_FIRST_PASS]
                    /\ phases' = [phases EXCEPT ![c] = @ \o <<"Resolved">>]
                    /\ UNCHANGED << target, port, sock, timer, elapsed, connects >>
               ELSE /\ target' = [target EXCEPT ![c] =
                          IF Len(ans.addrs) > 0 THEN ans.addrs[1] ELSE NoAddr]
                    /\ port' = [port EXCEPT ![c] = DialPort(raw[c])]
                    /\ sock' = [sock EXCEPT ![c] = "connecting"]
                    /\ timer' = [timer EXCEPT ![c] = "armed"]
                    /\ elapsed' = [elapsed EXCEPT ![c] = 0]
                    /\ connects' = [connects EXCEPT ![c] = @ + 1]
                    /\ phases' = [phases EXCEPT ![c] = @ \o
                          <<"Resolved", "PreClassified", "Connecting">>]
                    /\ pc' = [pc EXCEPT ![c] = "connecting"]
                    /\ UNCHANGED err
    /\ UNCHANGED << dns, raw, remote, lookups, fetches, fetchPeer, abandoned,
                    callsMade, requested, served, result, last, tfVars >>

\* A first pass that classifies only the address it is going to dial.
OnResolve_FirstOnly(c) ==
    \E ans \in Resolve4(URLParse(raw[c]).hostname) :
        AfterResolve(c, ans, Len(ans.addrs) > 0 /\ PRIVATE(ans.addrs[1]))

\* A guard that keeps the URLs it has let through in a module-level set
\* and does not classify the answer for a URL that is in it.
OnResolve_Verified(c) ==
    \E ans \in Resolve4(URLParse(raw[c]).hostname) :
        AfterResolve(c, ans,
            /\ ~(last.ok /\ last.raw = raw[c])
            /\ \E i \in 1..Len(ans.addrs) : PRIVATE(ans.addrs[i]))

\* ips.some(ip => PRIVATE.test(ip)) throws 'IP privado na primeira resolucao'.
OnResolve(c) ==
    \E ans \in Resolve4(URLParse(raw[c]).hostname) :
        AfterResolve(c, ans, \E i \in 1..Len(ans.addrs) : PRIVATE(ans.addrs[i]))

\* A timeout that dials again instead of failing the call.
OnTimeout_Retry(c) ==
    /\ TimerDue(c)
    /\ elapsed' = [elapsed EXCEPT ![c] = 0]
    /\ connects' = [connects EXCEPT ![c] = @ + 1]
    /\ UNCHANGED << dns, pc, raw, ips, target, port, sock, timer, remote, err,
                    phases, lookups, fetches, fetchPeer, abandoned,
                    callsMade, requested, served, result, last, tfVars >>

\* A guard that keeps socket in a module-level variable: the timer callback
\* of one call destroys the socket of whichever call connected last.
OnTimeout_SharedSocket(c) ==
    /\ TimerDue(c)
    /\ timer' = [timer EXCEPT ![c] = "fired"]
    /\ sock' = [d \in Callers |->
                  IF d = c \/ sock[d] = "connecting" THEN "destroyed"
                  ELSE sock[d]]
    /\ pc' = [pc EXCEPT ![c] = "failed"]
    /\ err' = [err EXCEPT ![c] = ERR_TIMEOUT]
    /\ UNCHANGED << dns, raw, ips, target, port, elapsed, remote, phases, lookups,
                    connects, fetches, fetchPeer, abandoned, callsMade,
                    requested, served, result, last, tfVars >>

\* A timer callback that rejects with nothing: socket.destroy(); nok().
OnTimeout_BareReject(c) ==
    /\ TimerDue(c)
    /\ timer' = [timer EXCEPT ![c] = "fired"]
    /\ sock' = [sock EXCEPT ![c] = "destroyed"]
    /\ pc' = [pc EXCEPT ![c] = "failed"]
    /\ UNCHANGED << dns, raw, ips, target, port, elapsed, remote, err, phases,
                    lookups, connects, fetches, fetchPeer, abandoned,
                    callsMade, requested, served, result, last, tfVars >>

\* setTimeout callback: socket.destroy(); nok(new Error('timeout handshake')).
OnTimeout(c) ==
    /\ TimerDue(c)
    /\ timer' = [timer EXCEPT ![c] = "fired"]
    /\ sock' = [sock EXCEPT ![c] = "destroyed"]
    /\ pc' = [pc EXCEPT ![c] = "failed"]
    /\ err' = [err EXCEPT ![c] = ERR_TIMEOUT]
    /\ UNCHANGED << dns, raw, ips, target, port, elapsed, remote, phases, lookups,
                    connects, fetches, fetchPeer, abandoned, callsMade,
                    requested, served, result, last, tfVars >>

\* An error handler that settles the handshake with ok() instead of nok(err).
OnError_Swallow(c) ==
    /\ sock[c] \in {"connecting", "ended"}
    /\ ~TimerDue(c)
    /\ timer' = [timer EXCEPT ![c] = IF @ = "armed" THEN "cleared" ELSE @]
    /\ sock' = [sock EXCEPT ![c] = "destroyed"]
    /\ IF pc[c] = "connecting"
       THEN /\ pc' = [pc EXCEPT ![c] = "fetching"]
            /\ phases' = [phases EXCEPT ![c] = @ \o <<"Fetching">>]
            /\ fetches' = [fetches EXCEPT ![c] = @ + 1]
            /\ requested' = [requested EXCEPT ![c] = <<raw[c]>>]
       ELSE UNCHANGED << pc, phases, fetches, requested >>
    /\ UNCHANGED << dns, raw, ips, target, port, elapsed, remote, err, lookups,
                    connects, fetchPeer, abandoned, callsMade, served, result,
                    last, tfVars >>

\* An error handler whose rejection reaches the caller even when the
\* handshake has resolved already.
OnError_AfterOk(c) ==
    /\ sock[c] \in {"connecting", "ended"}
    /\ ~TimerDue(c)
    /\ timer' = [timer EXCEPT ![c] = IF @ = "armed" THEN "cleared" ELSE @]
    /\ sock' = [sock EXCEPT ![c] = "destroyed"]
    /\ pc' = [pc EXCEPT ![c] = "failed"]
    /\ err' = [err EXCEPT ![c] = ERR_SOCKET]
    /\ UNCHANGED << dns, raw, ips, target, port, elapsed, remote, phases, lookups,
                    connects, fetches, fetchPeer, abandoned, callsMade,
                    requested, served, result, last, tfVars >>

\* An error handler without socket.destroy().
OnError_NoDestroy(c) ==
    /\ sock[c] \in {"connecting", "ended"}
    /\ ~TimerDue(c)
    /\ timer' = [timer EXCEPT ![c] = IF @ = "armed" THEN "cleared" ELSE @]
    /\ sock' = [sock EXCEPT ![c] = "errored"]
    /\ IF pc[c] = "connecting"
       THEN /\ pc' = [pc EXCEPT ![c] = "failed"]
            /\ err' = [err EXCEPT ![c] = ERR_SOCKET]
       ELSE UNCHANGED << pc, err >>
    /\ UNCHANGED << dns, raw, ips, target, port, elapsed, remote, phases, lookups,
                    connects, fetches, fetchPeer, abandoned, callsMade,
                    requested, served, result, last, tfVars >>

\* An error handler without clearTimeout(timer).
OnError_KeepTimer(c) ==
    /\ sock[c] \in {"connecting", "ended"}
    /\ ~TimerDue(c)
    /\ sock' = [sock EXCEPT ![c] = "destroyed"]
    /\ IF pc[c] = "connecting"
       THEN /\ pc' = [pc EXCEPT ![c] = "failed"]
            /\ err' = [err EXCEPT ![c] = ERR_SOCKET]
       ELSE UNCHANGED << pc, err >>
    /\ UNCHANGED << dns, raw, ips, target, port, timer, elapsed, remote, phases,
                    lookups, connects, fetches, fetchPeer, abandoned,
                    callsMade, requested, served, result, last, tfVars >>

\* socket.once('error'): clearTimeout, socket.destroy(), nok(err).  The
\* handler stays registered after a connect that ended the socket; nok on a
\* settled promise does nothing.
OnError(c) ==
    /\ sock[c] \in {"connecting", "ended"}
    /\ ~TimerDue(c)
    /\ timer' = [timer EXCEPT ![c] = IF @ = "armed" THEN "cleared" ELSE @]
    /\ sock' = [sock EXCEPT ![c] = "destroyed"]
    /\ IF pc[c] = "connecting"
       THEN /\ pc' = [pc EXCEPT ![c] = "failed"]
            /\ err' = [err EXCEPT ![c] = ERR_SOCKET]
       ELSE UNCHANGED << pc, err >>
    /\ UNCHANGED << dns, raw, ips, target, port, elapsed, remote, phases, lookups,
                    connects, fetches, fetchPeer, abandoned, callsMade,
                    requested, served, result, last, tfVars >>

\* Connect callback with the peer the transport layer reports: clearTimeout,
\* the post-handshake verdict `private', socket.destroy() and nok, or the
\* socket left as `closed' and ok; when the promise resolves, the
\* continuation `return fetch(raw)'.
ConnectCallback(c, peer, private, closed) ==
    /\ pc[c] = "connecting"
    /\ sock[c] = "connecting"
    /\ ~TimerDue(c)
    /\ timer' = [timer EXCEPT ![c] = "cleared"]
    /\ remote' = [remote EXCEPT ![c] = peer]
    /\ IF private
       THEN /\ sock' = [sock EXCEPT ![c] = "destroyed"]
            /\ pc' = [pc EXCEPT ![c] = "failed"]
            /\ err' = [err EXCEPT ![c] = ERR_POST]
            /\ UNCHANGED << phases, fetches, requested >>
       ELSE /\ sock' = [sock EXCEPT ![c] = closed]
            /\ phases' = [phases EXCEPT ![c] = @ \o <<"PeerVerified", "Fetching">>]
            /\ fetches' = [fetches EXCEPT ![c] = @ + 1]
            /\ requested' = [requested EXCEPT ![c] = <<raw[c]>>]
            /\ pc' = [pc EXCEPT ![c] = "fetching"]
            /\ UNCHANGED err
    /\ UNCHANGED << dns, raw, ips, target, port, elapsed, lookups, connects,
                    fetchPeer, abandoned, callsMade, served, result, last, tfVars >>

\* A connect callback without the check of the peer.
OnConnect_NoPeerCheck(c, peer) == ConnectCallback(c, peer, FALSE, "ended")

\* A connect callback that classifies the address it dialled again.
OnConnect_ReuseFirstPass(c, peer) ==
    ConnectCallback(c, peer, PRIVATE(target[c]), "ended")

\* A connect callback that resolves without socket.end().
OnConnect_NoEnd(c, peer) ==
    ConnectCallback(c, peer, PRIVATE(peer), "connected")

\* PRIVATE.test(socket.remoteAddress) decides; socket.end() before ok().
OnConnect(c, peer) == ConnectCallback(c, peer, PRIVATE(peer), "ended")

\* The addresses getaddrinfo gives fetch for the host of raw: the literal
\* itself, or the answer the zone gives now.
Lookup(h) == IF HostLiteral(h) # NoAddr THEN <<HostLiteral(h)>>
             ELSE IF dns.ok THEN dns.addrs ELSE <<>>

\* A retrieval pinned to the verified peer: the request goes to the address
\* the handshake reached, with the hostname in the Host header only.
FetchConnect_Pinned(c) ==
    /\ pc[c] = "fetching"
    /\ fetchPeer[c] = NoAddr
    /\ fetchPeer' = [fetchPeer EXCEPT ![c] = remote[c]]
    /\ UNCHANGED << dns, pc, raw, ips, target, port, sock, timer, elapsed, remote,
                    err, phases, lookups, connects, fetches, abandoned,
                    callsMade, requested, served, result, last, tfVars >>

\* fetch(raw) resolves the hostname of raw again, with the answer the zone
\* gives now, and connects to one of the addresses; no address, no fetch.
FetchConnect(c) ==
    /\ pc[c] = "fetching"
    /\ fetchPeer[c] = NoAddr
    /\ IF Len(Lookup(URLParse(raw[c]).hostname)) > 0
       THEN /\ \E a \in { Lookup(URLParse(raw[c]).hostname)[i] :
                            i \in 1..Len(Lookup(URLParse(raw[c]).hostname)) } :
                  fetchPeer' = [fetchPeer EXCEPT ![c] = a]
            /\ UNCHANGED << pc, err >>
       ELSE /\ pc' = [pc EXCEPT ![c] = "failed"]
            /\ err' = [err EXCEPT ![c] = ERR_FETCH]
            /\ UNCHANGED fetchPeer
    /\ UNCHANGED << dns, raw, ips, target, port, sock, timer, elapsed, remote,
                    phases, lookups, connects, fetches, abandoned, callsMade,
                    requested, served, result, last, tfVars >>

\* fetch(raw) is called without options, so its redirect mode is 'follow':
\* when a server answers with a 3xx status and a Location, fetch sends a
\* request for it.  The servers answer with the redirects `hops', one after
\* the other, and then with `resp'; the promise of fetch resolves, and
\* safeFetch resolves with `returned'.
FetchReturn(c, hops, resp, returned) ==
    /\ pc[c] = "fetching"
    /\ fetchPeer[c] # NoAddr
    /\ pc' = [pc EXCEPT ![c] = "done"]
    /\ phases' = [phases EXCEPT ![c] = @ \o <<"Done">>]
    /\ requested' = [requested EXCEPT ![c] = @ \o hops]
    /\ served' = [served EXCEPT ![c] = resp]
    /\ result' = [result EXCEPT ![c] = returned]
    /\ UNCHANGED << dns, raw, ips, target, port, sock, timer, elapsed, remote, err,
                    lookups, connects, fetches, fetchPeer, abandoned,
                    callsMade, last, tfVars >>

\* A return that wraps the body in a new Response, which loses the headers:
\* return new Response(await (await fetch(raw)).arrayBuffer()).
FetchDone_Rewrapped(c, hops, resp) ==
    FetchReturn(c, hops, resp, [resp EXCEPT !.contentType = ""])

\* `return fetch(raw)': the promise of safeFetch resolves with the Response
\* of fetch itself.
FetchDone(c, hops, resp) == FetchReturn(c, hops, resp, resp)

\* The promise of fetch rejects (transport or TLS failure).
FetchFail(c) ==
    /\ pc[c] = "fetching"
    /\ pc' = [pc EXCEPT ![c] = "failed"]
    /\ err' = [err EXCEPT ![c] = ERR_FETCH]
    /\ UNCHANGED << dns, raw, ips, target, port, sock, timer, elapsed, remote,
                    phases, lookups, connects, fetches, fetchPeer, abandoned,
                    callsMade, requested, served, result, last, tfVars >>

\* The caller gives up waiting while the connect is in flight.  safeFetch
\* takes no signal and registers nothing for it: the call goes on.
Abandon(c) ==
    /\ pc[c] = "connecting"
    /\ ~abandoned[c]
    /\ abandoned' = [abandoned EXCEPT ![c] = TRUE]
    /\ UNCHANGED << dns, pc, raw, ips, target, port, sock, timer, elapsed, remote,
                    err, phases, lookups, connects, fetches, fetchPeer,
                    callsMade, requested, served, result, last, tfVars >>

\* The call is over and its locals are gone; the caller may call again.
Return(c) ==
    /\ pc[c] \in {"done", "failed"}
    /\ callsMade < MaxCalls
    /\ pc' = [pc EXCEPT ![c] = "idle"]
    /\ raw' = [raw EXCEPT ![c] = ""]
    /\ ips' = [ips EXCEPT ![c] = <<>>]
    /\ target' = [target EXCEPT ![c] = NoAddr]
    /\ port' = [port EXCEPT ![c] = 0]
    /\ sock' = [sock EXCEPT ![c] = "none"]
    /\ timer' = [timer EXCEPT ![c] = "none"]
    /\ elapsed' = [elapsed EXCEPT ![c] = 0]
    /\ remote' = [remote EXCEPT ![c] = NoAddr]
    /\ err' = [err EXCEPT ![c] = NoErr]
    /\ phases' = [phases EXCEPT ![c] = <<>>]
    /\ lookups' = [lookups EXCEPT ![c] = 0]
    /\ connects' = [connects EXCEPT ![c] = 0]
    /\ fetches' = [fetches EXCEPT ![c] = 0]
    /\ fetchPeer' = [fetchPeer EXCEPT ![c] = NoAddr]
    /\ abandoned' = [abandoned EXCEPT ![c] = FALSE]
    /\ requested' = [requested EXCEPT ![c] = <<>>]
    /\ served' = [served EXCEPT ![c] = NoResponse]
    /\ result' = [result EXCEPT ![c] = NoResponse]
    /\ last' = IF pc[c] = "done"
               THEN [ok |-> TRUE, raw |-> raw[c]]
               ELSE NoLast
    /\ UNCHANGED << dns, callsMade, tfVars >>

\* A lookup of the hostname is outstanding: resolve4 of the guard, or the
\* lookup fetch makes for its own connection.
LookupPending(c) ==
    \/ pc[c] = "resolving"
    \/ pc[c] = "fetching" /\ fetchPeer[c] = NoAddr

\* The owner of the zone changes the answer for the hostname.  A change
\* shows only in the next lookup, so changes are followed while one is
\* outstanding.
DnsChange ==
    /\ \E c \in Callers : LookupPending(c)
    /\ \E d \in DnsStates : d # dns /\ dns' = d
    /\ UNCHANGED << pc, raw, ips, target, port, sock, timer, elapsed, remote, err,
                    phases, lookups, connects, fetches, fetchPeer, abandoned,
                    callsMade, requested, served, result, last, tfVars >>

\* Time passes for the handshakes in flight.
Tick ==
    /\ \E c \in Callers : timer[c] = "armed" /\ elapsed[c] < MaxElapsed
    /\ elapsed' = [c \in Callers |->
                     IF timer[c] = "armed" THEN elapsed[c] + TickMs
                     ELSE elapsed[c]]
    /\ UNCHANGED << dns, pc, raw, ips, target, port, sock, timer, remote, err,
                    phases, lookups, connects, fetches, fetchPeer, abandoned,
                    callsMade, requested, served, result, last, tfVars >>

Next ==
    \/ \E c \in OneCaller, r \in RawInputs : Call(c, r)
    \/ \E c \in OneCaller : OnResolve(c)
    \/ \E c \in OneCaller : OnTimeout(c)
    \/ \E c \in OneCaller : OnError(c)
    \/ \E c \in OneCaller, peer \in PeerAddrs : OnConnect(c, peer)
    \/ \E c \in OneCaller : FetchConnect(c)
    \/ \E c \in OneCaller, hops \in RedirectChains, resp \in Responses :
          FetchDone(c, hops, resp)
    \/ \E c \in OneCaller : FetchFail(c)
    \/ \E c \in OneCaller : Abandon(c)
    \/ \E c \in OneCaller : Return(c)
    \/ DnsChange
    \/ Tick

Spec == Init /\ [][Next]_vars

\* ------------------------------------------------- URLs that name a port
\* The calls of a caller whose URLs name the host with and without a port.
DialInputs == { "https://evil.example/a.png",
                "https://evil.example:8443/a.png" }

NextDial ==
    \/ \E c \in OneCaller, r \in DialInputs : Call(c, r)
    \/ \E c \in OneCaller : OnResolve(c)
    \/ \E c \in OneCaller : OnTimeout(c)
    \/ \E c \in OneCaller : OnError(c)
    \/ \E c \in OneCaller, peer \in PeerAddrs : OnConnect(c, peer)
    \/ \E c \in OneCaller : FetchConnect(c)
    \/ \E c \in OneCaller, resp \in Responses : FetchDone(c, <<>>, resp)
    \/ \E c \in OneCaller : FetchFail(c)
    \/ \E c \in OneCaller : Return(c)
    \/ DnsChange
    \/ Tick

SpecDial == Init /\ [][NextDial]_vars

\* ------------------------------------------ transferFunds: data and checks
\* JavaScript numbers are followed as halves, so that 0.5 and 50000.5 are
\* there beside the integers; strings of account numbers as their
\* characters; a description as its length, which is all the schema reads.
Undefined == [type |-> "undefined", halves |-> 0]
Number(v) == [type |-> "number", halves |-> 2 * v]
HalfMore(v) == [type |-> "number", halves |-> 2 * v + 1]
NumericString(v) == [type |-> "string", halves |-> 2 * v]
BigIntValue(v) == [type |-> "bigint", halves |-> 2 * v]
Text(chars) == [type |-> "string", text |-> chars]
NoText == [type |-> "undefined", text |-> <<>>]
Described(n) == [type |-> "string", length |-> n]
NoDescription == [type |-> "undefined", length |-> 0]

ACC_123456 == <<"A", "C", "C", "-", "1", "2", "3", "4", "5", "6">>

AmountInputs ==
    { Undefined, NumericString(1000), BigIntValue(1000), HalfMore(0),
      HalfMore(50000) } \cup
    { Number(v) : v \in { -100, 0, 1000, 50000, 50001, 100000, 1000000,
                          1000001, 2000000 } }
AccountInputs ==
    { NoText, Text(ACC_123456), Text(<<"i", "n", "v", "a", "l", "i", "d">>),
      Text(<<"A", "C", "C", "-", "1", "2", "3", "4", "5">>),
      Text(ACC_123456 \o <<"7">>),
      Text(<<"A", "C", "C", "-", "1", "2", "3", "4", "5", "x">>) }
DescriptionInputs == { Described(5), Described(200), Described(201) }

Object(a, b, d) ==
    [shape |-> "object", amount |-> a, toAccount |-> b, description |-> d]
NonObject(k) ==
    [shape |-> k, amount |-> Undefined, toAccount |-> NoText,
     description |-> NoDescription]

\* What a client can pass: nothing, a bigint, a string, or an object.
Payloads ==
    { NonObject("undefined"), NonObject("bigint"), NonObject("string") } \cup
    { Object(a, b, NoDescription) : a \in AmountInputs, b \in AccountInputs } \cup
    { Object(Number(1000), Text(ACC_123456), d) : d \in DescriptionInputs }

\* /^ACC-\d{6}$/ on the characters of the string.
AccountPattern(chars) ==
    /\ Len(chars) = 10
    /\ SubSeq(chars, 1, 4) = <<"A", "C", "C", "-">>
    /\ \A i \in 5..10 : \E d \in 1..10 : chars[i] = DigitChars[d]

\* TransferSchema.parse(payload) returns; otherwise it throws a ZodError.
\* amount: number, int, positive, max 1_000_000; toAccount: string matching
\* the pattern; description: absent, or a string of at most 200 characters.
SchemaAccepts(pl) ==
    /\ pl.shape = "object"
    /\ pl.amount.type = "number"
    /\ pl.amount.halves % 2 = 0
    /\ pl.amount.halves > 0
    /\ pl.amount.halves <= 2 * MAX_AMOUNT
    /\ pl.toAccount.type = "string"
    /\ AccountPattern(pl.toAccount.text)
    /\ \/ pl.description.type = "undefined"
       \/ pl.description.type = "string" /\
          pl.description.length <= DESCRIPTION_MAX

\* JSON.stringify(payload): text; undefined for undefined; a TypeError for
\* a bigint, alone or inside the object.
JSONStringify(pl) ==
    CASE pl.shape = "undefined" -> "undefined"
      [] pl.shape = "bigint" -> "TypeError"
      [] pl.shape = "object" /\ pl.amount.type = "bigint" -> "TypeError"
      [] OTHER -> "text"

\* JSON.stringify(payload).slice(0, n) inside the object given to
\* console.error: the statement completes only when stringify gave text.
LogThrows(pl) == JSONStringify(pl) # "text"

\* Results of the call: the two shapes of TransferResult, and the
\* rejection of the promise when a statement of the body throws.
Success(pl) ==
    [kind |-> "success", error |-> "", id |-> "",
     amount |-> pl.amount, toAccount |-> pl.toAccount]
Failure(e) ==
    [kind |-> "error", error |-> e, id |-> "uuid",
     amount |-> Undefined, toAccount |-> NoText]
Thrown ==
    [kind |-> "thrown", error |-> "TypeError", id |-> "",
     amount |-> Undefined, toAccount |-> NoText]

\* getSession is the stand-in for the session lookup of the deployment
\* (next-auth, lucia): its declared result, UserSession | null, is what the
\* body of transferFunds handles.  The mock returns MockSession; null is
\* carried as NoSession.
MockSession == [userId |-> "user-123", roles |-> {"user", "finance"}]
Sessions == { NoSession, MockSession,
              [userId |-> "user-123", roles |-> {"user"}] }
RateSessions == { MockSession,
                  [userId |-> "user-456", roles |-> {"user", "finance"}] }

\* A limit check that lets the call through while count is at the maximum.
LimitReached_Above(count) == count > RATE_LIMIT_MAX

\* userLimit.count >= RATE_LIMIT_MAX
LimitReached(count) == count >= RATE_LIMIT_MAX

\* A limiter whose refusal starts the window again.
CheckRateLimit_Penalty(entry, at) ==
    IF entry = NoEntry \/ at > entry.resetAt
    THEN [admit |-> TRUE,
          entry |-> [count |-> 1, resetAt |-> at + RATE_LIMIT_WINDOW]]
    ELSE IF LimitReached(entry.count)
    THEN [admit |-> FALSE,
          entry |-> [entry EXCEPT !.resetAt = at + RATE_LIMIT_WINDOW]]
    ELSE [admit |-> TRUE, entry |-> [entry EXCEPT !.count = @ + 1]]

\* checkRateLimit(userId) at time `at' with the entry the Map has for the
\* user: the verdict and the entry the Map has afterwards.
CheckRateLimit(entry, at) ==
    IF entry = NoEntry \/ at > entry.resetAt
    THEN [admit |-> TRUE,
          entry |-> [count |-> 1, resetAt |-> at + RATE_LIMIT_WINDOW]]
    ELSE IF LimitReached(entry.count)
    THEN [admit |-> FALSE, entry |-> entry]
    ELSE [admit |-> TRUE, entry |-> [entry EXCEPT !.count = @ + 1]]

\* ------------------------------------------------- transferFunds: actions
\* transferFunds(payload) up to its await of getSession().
TransferCall(t, pl) ==
    /\ tfpc[t] = "idle"
    /\ tfpc' = [tfpc EXCEPT ![t] = "session"]
    /\ payload' = [payload EXCEPT ![t] = pl]
    /\ UNCHANGED << rateLimitMap, now, session, transferResult, steps,
                    opened, admitted >>
    /\ UNCHANGED << dns, pc, raw, ips, target, port, sock, timer, elapsed,
                    remote, err, phases, lookups, connects, fetches,
                    fetchPeer, abandoned, callsMade, requested, served,
                    result, last >>

\* What the body does after the rate limit let the call through: schema
\* validation with its log, then the business logic.
Validated(pl) ==
    IF ~SchemaAccepts(pl)
    THEN [steps |-> <<"schema">>,
          result |-> IF LogThrows(pl) THEN Thrown ELSE Failure("bad_input")]
    ELSE IF pl.amount.halves > 2 * MockBalance
    THEN [steps |-> <<"schema", "business">>,
          result |-> Failure("insufficient_funds")]
    ELSE [steps |-> <<"schema", "business">>, result |-> Success(pl)]

\* The rest of the body, run without a further await once getSession has
\* settled with s.  `limited' says whether checkRateLimit is called for
\* this session, `roleFirst' whether the role check stands before it.
Settle(t, s, limited, roleFirst) ==
    /\ tfpc[t] = "session"
    /\ LET finance == "finance" \in s.roles
           rl == CheckRateLimit(rateLimitMap[s.userId], now)
           fresh == rl.admit /\ rl.entry.count = 1
           out ==
             IF s = NoSession
             THEN [steps |-> <<"session">>,
                   result |-> IF LogThrows(payload[t]) THEN Thrown
                              ELSE Failure("unauthorized")]
             ELSE IF roleFirst /\ ~finance
             THEN [steps |-> <<"session", "role">>,
                   result |-> Failure("unauthorized")]
             ELSE IF ~rl.admit
             THEN [steps |-> IF roleFirst THEN <<"session", "role", "rate">>
                             ELSE <<"session", "rate">>,
                   result |-> Failure("rate_limited")]
             ELSE IF ~finance
             THEN [steps |-> <<"session", "rate", "role">>,
                   result |-> Failure("unauthorized")]
             ELSE [steps |-> (IF roleFirst THEN <<"session", "role", "rate">>
                              ELSE <<"session", "rate", "role">>)
                             \o Validated(payload[t]).steps,
                   result |-> Validated(payload[t]).result]
       IN  /\ session' = [session EXCEPT ![t] = s]
           /\ steps' = [steps EXCEPT ![t] = out.steps]
           /\ transferResult' = [transferResult EXCEPT ![t] = out.result]
           /\ tfpc' = [tfpc EXCEPT ![t] =
                         IF out.result.kind = "thrown" THEN "rejected"
                         ELSE "returned"]
           /\ IF limited
              THEN /\ rateLimitMap' = [rateLimitMap EXCEPT ![s.userId] = rl.entry]
                   /\ opened' = [opened EXCEPT ![s.userId] =
                                   IF fresh THEN now ELSE @]
                   /\ admitted' = [admitted EXCEPT ![s.userId] =
                                   IF fresh THEN 1
                                   ELSE IF rl.admit THEN @ + 1 ELSE @]
              ELSE UNCHANGED << rateLimitMap, opened, admitted >>
    /\ UNCHANGED << now, payload >>
    /\ UNCHANGED << dns, pc, raw, ips, target, port, sock, timer, elapsed,
                    remote, err, phases, lookups, connects, fetches,
                    fetchPeer, abandoned, callsMade, requested, served,
                    result, last >>

\* A body whose rate limit stands before the role check.
OnSession_LimitFirst(t, s) == Settle(t, s, s # NoSession, FALSE)

\* ETAPA 1 to 5 in the order of the body: session, role, rate limit,
\* schema, business logic.
OnSession(t, s) ==
    Settle(t, s, s # NoSession /\ "finance" \in s.roles, TRUE)

\* The caller has the result, or the rejection, of its await.
TransferReturn(t) ==
    /\ tfpc[t] \in {"returned", "rejected"}
    /\ tfpc' = [tfpc EXCEPT ![t] = "idle"]
    /\ payload' = [payload EXCEPT ![t] = NoPayload]
    /\ session' = [session EXCEPT ![t] = NoSession]
    /\ transferResult' = [transferResult EXCEPT ![t] = NoResult]
    /\ steps' = [steps EXCEPT ![t] = <<>>]
    /\ UNCHANGED << rateLimitMap, now, opened, admitted >>
    /\ UNCHANGED << dns, pc, raw, ips, target, port, sock, timer, elapsed,
                    remote, err, phases, lookups, connects, fetches,
                    fetchPeer, abandoned, callsMade, requested, served,
                    result, last >>

\* Time passes on the clock Date.now() reads.
ClockTick ==
    /\ now < MaxNow
    /\ now' = now + RlTickMs
    /\ UNCHANGED << rateLimitMap, tfpc, payload, session, transferResult, steps,
                    opened, admitted >>
    /\ UNCHANGED << dns, pc, raw, ips, target, port, sock, timer, elapsed,
                    remote, err, phases, lookups, connects, fetches,
                    fetchPeer, abandoned, callsMade, requested, served,
                    result, last >>

\* One client calling the action with every payload and every session.
NoZone == { [ok |-> FALSE, addrs |-> <<>>] }

NextTransfer ==
    \/ \E t \in OneTransfer, pl \in Payloads : TransferCall(t, pl)
    \/ \E t \in OneTransfer :
          tfpc[t] = "session" /\ \E s \in Sessions : OnSession(t, s)
    \/ \E t \in OneTransfer : TransferReturn(t)
    \/ ClockTick

SpecTransfer == InitWith(NoZone) /\ [][NextTransfer]_vars

\* Two invocations at once, for the sessions of two users, with a payload
\* the schema accepts and one it refuses.
RatePayloads == { Object(Number(1000), Text(ACC_123456), NoDescription),
                  Object(Number(-100), Text(ACC_123456), NoDescription) }

NextRate ==
    \/ \E t \in Transfers, pl \in RatePayloads : TransferCall(t, pl)
    \/ \E t \in Transfers :
          tfpc[t] = "session" /\ \E s \in RateSessions : OnSession(t, s)
    \/ \E t \in Transfers : TransferReturn(t)
    \/ ClockTick

SpecRate == InitWith(NoZone) /\ [][NextRate]_vars

\* ------------------------------------------------- the classifier at work
\* The guard in front of every dotted quad: each value of the two octets
\* the expression reads, and the highest host part as well where the first
\* octet is one the expression names.  The zone answers with one address.
\* The transport reports, as the peer of a connection to 93.b.0.1, any
\* address b.x.h: over the 256 targets each dotted quad is the peer once.
Octet == 0..255
NamedFirst == {10, 127, 169, 172, 192}
HostParts(a) == IF a \in NamedFirst
                THEN { <<0, 1>>, <<255, 255>> } ELSE { <<0, 1>> }
ProbeZone(o) == [ok |-> TRUE, addrs |-> <<Dotted(o)>>]
ProbeTarget(b) == Dotted(<<93, b, 0, 1>>)

InitClassify ==
    InitWith({ ProbeZone(<<a, b, 0, 1>>) : a \in Octet, b \in Octet } \cup
             { ProbeZone(<<a, b, 255, 255>>) : a \in NamedFirst, b \in Octet })

NextClassify ==
    \/ \E c \in OneCaller : Call(c, "https://evil.example/a.png")
    \/ \E c \in OneCaller : OnResolve(c)
    \/ \E c \in OneCaller :
          /\ pc[c] = "connecting"
          /\ StartsWith(target[c], <<"9", "3", ".">>)
          /\ \E b \in Octet :
                /\ target[c] = ProbeTarget(b)
                /\ \E x \in Octet, t \in HostParts(b) :
                      OnConnect(c, Dotted(<<b, x, t[1], t[2]>>))

SpecClassify == InitClassify /\ [][NextClassify]_vars

\* ------------------------------------------------------ concurrent calls
\* Two calls in flight at once, in a zone that does not change meanwhile;
\* the transport reaches the address dialled or a private one.
ConcZones == { [ok |-> FALSE, addrs |-> <<>>],
               [ok |-> TRUE, addrs |-> <<Dotted(<<93, 184, 216, 34>>)>>],
               [ok |-> TRUE, addrs |-> <<Dotted(<<93, 184, 216, 34>>),
                                        Dotted(<<10, 0, 0, 1>>)>>] }
ConcPeers == { Dotted(<<93, 184, 216, 34>>), Dotted(<<10, 0, 0, 1>>) }

InitConc == InitWith(ConcZones)

NextConc ==
    \/ \E c \in Callers, r \in RawInputs : Call(c, r)
    \/ \E c \in Callers : OnResolve(c)
    \/ \E c \in Callers : OnTimeout(c)
    \/ \E c \in Callers : OnError(c)
    \/ \E c \in Callers, peer \in ConcPeers : OnConnect(c, peer)
    \/ \E c \in Callers : FetchConnect(c)
    \/ \E c \in Callers, resp \in Responses : FetchDone(c, <<>>, resp)
    \/ \E c \in Callers : FetchFail(c)
    \/ Tick

SpecConc == InitConc /\ [][NextConc]_vars

TypeOK ==
    /\ dns.ok \in BOOLEAN
    /\ ~dns.ok => dns.addrs = <<>>
    /\ \A c \in Callers :
         /\ pc[c] \in {"idle", "resolving", "connecting", "fetching", "done", "failed"}
         /\ sock[c] \in {"none", "connecting", "ended", "destroyed"}
         /\ timer[c] = "armed" <=> pc[c] = "connecting"
         /\ timer[c] \in {"none", "armed", "cleared", "fired"}

\* ================================================================ claims
\* The ranges the guard is meant to refuse, on the numeric octets:
\* 10.0.0.0/8, 172.16.0.0/12, 192.168.0.0/16, 127.0.0.0/8, 169.254.0.0/16.
InPrivateRange(o) ==
    \/ o[1] = 10
    \/ o[1] = 172 /\ o[2] >= 16 /\ o[2] <= 31
    \/ o[1] = 192 /\ o[2] = 168
    \/ o[1] = 127
    \/ o[1] = 169 /\ o[2] = 254

PrivateAddrs == { Dotted(o) : o \in { q \in AddrOctets : InPrivateRange(q) } }
PublicAddrs  == Addrs \ PrivateAddrs

Terminal(c) == pc[c] \in {"done", "failed"}

\* The phases of one call, in the order the design gives them.
PhaseOrder == << "Parsed", "SchemeChecked", "Resolved", "PreClassified",
                 "Connecting", "PeerVerified", "Fetching", "Done" >>

IsPrefix(p, q) == Len(p) <= Len(q) /\ SubSeq(q, 1, Len(p)) = p

\* Errors that end a call before the final retrieval.
PreFetchErrors == { ERR_INVALID_URL, ERR_SCHEME, ERR_DNS, ERR_FIRST_PASS,
                    ERR_TIMEOUT, ERR_SOCKET, ERR_POST }

\* C1: fetch(raw) is issued only if the connect callback ran before the 3 s
\* timer fired and the peer read from the socket classified as public; a call
\* that failed in URL parsing, scheme check, resolution, first pass, timeout,
\* socket error or private peer has issued no fetch.
C1_FetchOnlyAfterVerifiedHandshake ==
    \A c \in Callers :
        /\ fetches[c] > 0 =>
              /\ remote[c] # NoAddr
              /\ ~PRIVATE(remote[c])
              /\ timer[c] = "cleared"
              /\ elapsed[c] < HANDSHAKE_TIMEOUT_MS
        /\ err[c] \in PreFetchErrors => fetches[c] = 0

\* A fetch was issued after a handshake that took some time.
C1_Witness ==
    \E c \in Callers :
        fetches[c] = 1 /\ elapsed[c] > 0 /\ remote[c] \in PublicAddrs

\* C2: no connection opened for a call has a private, loopback or link-local
\* peer, whatever the zone does between resolution, handshake and retrieval.
\* Stated for the connection of the final fetch, in the calls whose handshake
\* reached the public address they had resolved.
C2_FetchNeverReachesPrivate ==
    \A c \in Callers :
        (target[c] \in PublicAddrs /\ remote[c] = target[c])
        => fetchPeer[c] \notin PrivateAddrs

\* C3: when the first pass saw only public addresses and the peer read from
\* the connected socket is private, the call fails with 'IP privado apos
\* handshake', the socket is destroyed and no fetch is issued: the verdict
\* is that of the observed peer, not that of the resolved addresses.
C3_RebindingDetected ==
    \A c \in Callers :
        ( /\ remote[c] \in PrivateAddrs
          /\ \A i \in 1..Len(ips[c]) : ips[c][i] \in PublicAddrs )
        => /\ pc[c] = "failed"
           /\ err[c] = ERR_POST
           /\ sock[c] = "destroyed"
           /\ fetches[c] = 0

\* A public address was resolved and dialled, and a private peer answered.
C3_Witness ==
    \E c \in Callers :
        /\ Len(ips[c]) > 0
        /\ target[c] \in PublicAddrs
        /\ remote[c] \in PrivateAddrs
        /\ err[c] = ERR_POST

\* C4: a resolved sequence with a private address at any position fails with
\* 'IP privado na primeira resolucao'; no socket is opened, no fetch issued.
C4_RejectIfAnyPrivate ==
    \A c \in Callers :
        (\E i \in 1..Len(ips[c]) : ips[c][i] \in PrivateAddrs)
        => /\ pc[c] = "failed"
           /\ err[c] = ERR_FIRST_PASS
           /\ sock[c] = "none"
           /\ connects[c] = 0
           /\ fetches[c] = 0

\* The first address is public and the second one private.
C4_Witness ==
    \E c \in Callers :
        /\ Len(ips[c]) = 2
        /\ ips[c][1] \in PublicAddrs
        /\ ips[c][2] \in PrivateAddrs
        /\ err[c] = ERR_FIRST_PASS

\* C5: an input that parses with a scheme other than https fails with
\* 'Apenas HTTPS permitido' with no DNS lookup and no socket.
C5_SchemeBeforeNetwork ==
    \A c \in Callers :
        (pc[c] # "idle" /\ URLParse(raw[c]).ok
            /\ URLParse(raw[c]).protocol # "https:")
        => /\ pc[c] = "failed"
           /\ err[c] = ERR_SCHEME
           /\ lookups[c] = 0
           /\ connects[c] = 0
           /\ sock[c] = "none"
           /\ fetches[c] = 0

\* A call with an http URL has failed.
C5_Witness ==
    \E c \in Callers :
        URLParse(raw[c]).protocol = "http:" /\ err[c] = ERR_SCHEME

\* C6: a connect that has not completed 3000 ms after it started is aborted:
\* the handshake never completes at or after 3000 ms, and the timeout fails
\* the call with 'timeout handshake', the socket destroyed, no fetch issued.
C6_HandshakeTimeout ==
    \A c \in Callers :
        /\ remote[c] # NoAddr => elapsed[c] < HANDSHAKE_TIMEOUT_MS
        /\ fetches[c] > 0 => elapsed[c] < HANDSHAKE_TIMEOUT_MS
        /\ timer[c] = "fired" <=> err[c] = ERR_TIMEOUT
        /\ err[c] = ERR_TIMEOUT =>
              /\ pc[c] = "failed"
              /\ elapsed[c] >= HANDSHAKE_TIMEOUT_MS
              /\ sock[c] = "destroyed"
              /\ remote[c] = NoAddr
              /\ fetches[c] = 0

\* The timer fired on a connect in flight.
C6_Witness ==
    \E c \in Callers :
        err[c] = ERR_TIMEOUT /\ connects[c] = 1 /\ sock[c] = "destroyed"

\* C7: a call that created a socket and has finished has closed it (destroyed
\* or ended), on timeout, error, private peer, success, and when the caller
\* gave up during the connect.
C7_SocketClosedOnExit ==
    \A c \in Callers :
        (Terminal(c) /\ connects[c] > 0) => sock[c] \in {"ended", "destroyed"}

\* The caller gave up during the connect and the call has finished.
C7_Witness ==
    \E c \in Callers :
        Terminal(c) /\ abandoned[c] /\ sock[c] \in {"ended", "destroyed"}

\* C8: the phases of a call are passed in the order of PhaseOrder, none
\* skipped or repeated; a step either keeps the phases, extends them along
\* that order, or fails the call; done and failed are terminal.
C8_PhaseOrder ==
    [][ \A c \in Callers :
          \/ pc'[c] = "idle"
          \/ /\ IsPrefix(phases'[c], PhaseOrder)
             /\ IsPrefix(phases[c], phases'[c])
             /\ Terminal(c) => (pc'[c] = pc[c] /\ phases'[c] = phases[c])
             /\ pc'[c] = "done" <=> phases'[c] = PhaseOrder
             /\ pc'[c] = "resolving" => phases'[c] = SubSeq(PhaseOrder, 1, 2)
             /\ pc'[c] = "connecting" => phases'[c] = SubSeq(PhaseOrder, 1, 5)
             /\ pc'[c] = "fetching" => phases'[c] = SubSeq(PhaseOrder, 1, 7)
             /\ pc'[c] = "failed" => err'[c] # NoErr
      ]_vars

\* A call went through every phase.
C8_Witness ==
    \E c \in Callers : pc[c] = "done" /\ phases[c] = PhaseOrder

\* C9: one call makes at most one resolve4, one socket.connect and one fetch,
\* and none after it has failed or is done.
C9_NoRetry ==
    [][ \A c \in Callers :
          /\ lookups'[c] <= 1 /\ connects'[c] <= 1 /\ fetches'[c] <= 1
          /\ Terminal(c) =>
                \/ pc'[c] = "idle"
                \/ /\ pc'[c] = pc[c]
                   /\ err'[c] = err[c]
                   /\ lookups'[c] = lookups[c]
                   /\ connects'[c] = connects[c]
                   /\ fetches'[c] = fetches[c]
                   /\ fetchPeer'[c] = fetchPeer[c]
      ]_vars

\* A call failed on the timeout after its one lookup and one connect.
C9_Witness ==
    \E c \in Callers :
        /\ pc[c] = "failed" /\ err[c] = ERR_TIMEOUT
        /\ lookups[c] = 1 /\ connects[c] = 1 /\ fetches[c] = 0

\* C10: a lookup that fails or yields no address fails the call with the
\* resolution error; no socket is created and no fetch issued.
C10_NoHandshakeWithoutAddress ==
    \A c \in Callers :
        (lookups[c] > 0 /\ pc[c] # "resolving" /\ Len(ips[c]) = 0)
        => /\ pc[c] = "failed"
           /\ err[c] = ERR_DNS
           /\ sock[c] = "none"
           /\ connects[c] = 0
           /\ fetches[c] = 0

\* C11: an input that does not parse as a URL fails with the TypeError of
\* new URL (invalid-url); no DNS lookup, no socket, no fetch.
C11_InvalidUrlBeforeNetwork ==
    \A c \in Callers :
        (pc[c] # "idle" /\ ~URLParse(raw[c]).ok)
        => /\ pc[c] = "failed"
           /\ err[c] = ERR_INVALID_URL
           /\ phases[c] = <<>>
           /\ lookups[c] = 0
           /\ connects[c] = 0
           /\ sock[c] = "none"
           /\ fetches[c] = 0

\* A call with a URL that has no host has failed.
C11_Witness ==
    \E c \in Callers : raw[c] = "https://" /\ err[c] = ERR_INVALID_URL

\* The call has an answer of the resolver in hand.
Answered(c) == lookups[c] > 0 /\ pc[c] # "resolving"

AllPublic(a) == \A i \in 1..Len(a) : a[i] \in PublicAddrs

FailureKind(e) ==
    CASE e = ERR_INVALID_URL -> "invalid-url"
      [] e = ERR_SCHEME      -> "disallowed-scheme"
      [] e = ERR_DNS         -> "resolution-error"
      [] e = ERR_FIRST_PASS  -> "private-address-first-pass"
      [] e = ERR_TIMEOUT     -> "handshake-timeout"
      [] e = ERR_SOCKET      -> "handshake-error"
      [] e = ERR_POST        -> "private-address-post-handshake"
      [] e = ERR_FETCH       -> "fetch-error"
      [] OTHER               -> "unclassified"

\* Number of phases a call has entered when it fails with the kind.
PhasesBefore(k) ==
    CASE k = "invalid-url"                    -> 0
      [] k = "disallowed-scheme"              -> 1
      [] k = "resolution-error"               -> 2
      [] k = "private-address-first-pass"     -> 3
      [] k = "handshake-timeout"              -> 5
      [] k = "handshake-error"                -> 5
      [] k = "private-address-post-handshake" -> 5
      [] k = "fetch-error"                    -> 7
      [] OTHER                                -> 8

DigitValue(ch) == CHOOSE d \in 0..9 : DigitChars[d + 1] = ch

RECURSIVE OctetsFrom(_, _, _, _)
OctetsFrom(s, i, cur, acc) ==
    IF i > Len(s) THEN Append(acc, cur)
    ELSE IF s[i] = "." THEN OctetsFrom(s, i + 1, 0, Append(acc, cur))
    ELSE OctetsFrom(s, i + 1, 10 * cur + DigitValue(s[i]), acc)

Octets(s) == OctetsFrom(s, 1, 0, <<>>)

\* C17: for every dotted quad a.b.c.d the guard classifies the address as
\* private exactly when it lies in 10.0.0.0/8, 172.16.0.0/12,
\* 192.168.0.0/16, 127.0.0.0/8 or 169.254.0.0/16, in the first pass over the
\* DNS answer and in the check of the peer after the handshake alike.
C17_ClassifierExact ==
    \A c \in Callers :
        /\ Len(ips[c]) = 1 =>
             (err[c] = ERR_FIRST_PASS <=> InPrivateRange(Octets(ips[c][1])))
        /\ remote[c] # NoAddr =>
             (err[c] = ERR_POST <=> InPrivateRange(Octets(remote[c])))

\* The last address of 172.16.0.0/12 was the peer of a connection to a
\* public address, and was refused.
C17_Witness ==
    \E c \in Callers :
        /\ remote[c] = Dotted(<<172, 31, 255, 255>>)
        /\ err[c] = ERR_POST
        /\ ips[c] = <<ProbeTarget(172)>>

\* IPv6 texts of addresses that are private: the loopback and the
\* IPv4-mapped form of 10.0.0.1.
PrivateV6 == { LOOPBACK6, MAPPED10 }

\* C18: a peer observed as an IPv6 loopback, or as the IPv4-mapped form of
\* a private IPv4 address, is classified as private: the call fails with
\* 'IP privado apos handshake' and no fetch is made.
C18_V6PeerRefused ==
    \A c \in Callers :
        remote[c] \in PrivateV6
        => /\ pc[c] = "failed"
           /\ err[c] = ERR_POST
           /\ fetches[c] = 0

\* C19 (as stated): a call with an https URL whose host is an IPv4 literal
\* in a private range is rejected with 'IP privado na primeira resolucao',
\* and neither the handshake socket nor the fetch is made.
C19_PrivateLiteralRefusedFirstPass ==
    \A c \in Callers :
        (Answered(c) /\ HostLiteral(URLParse(raw[c]).hostname) \in PrivateAddrs)
        => /\ pc[c] = "failed"
           /\ err[c] = ERR_FIRST_PASS
           /\ connects[c] = 0
           /\ fetches[c] = 0

\* C15: sequential calls share nothing.  A call starts without addresses,
\* its resolution takes the answer the zone gives at that moment and
\* classifies it, so that a private answer fails it with 'IP privado na
\* primeira resolucao' whatever the call before found, and its fetch is
\* issued only after its own lookup and its own handshake.
C15_EachCallItsOwnChecks ==
    [][\A c \in Callers :
         /\ (pc[c] = "idle" /\ pc'[c] # "idle")
            => /\ ips[c] = <<>> /\ target[c] = NoAddr /\ remote[c] = NoAddr
               /\ lookups[c] = 0 /\ connects[c] = 0
         /\ ( /\ pc[c] = "resolving" /\ pc'[c] # "resolving"
              /\ HostLiteral(URLParse(raw[c]).hostname) = NoAddr
              /\ dns.ok )
            => /\ ips'[c] = dns.addrs
               /\ (\E i \in 1..Len(dns.addrs) : dns.addrs[i] \in PrivateAddrs)
                  => err'[c] = ERR_FIRST_PASS
         /\ (pc[c] # "fetching" /\ pc'[c] = "fetching")
            => /\ lookups[c] = 1 /\ connects[c] = 1
               /\ remote'[c] # NoAddr /\ remote'[c] \notin PrivateAddrs
      ]_vars

\* The call before fetched the URL; the same URL now resolves to a private
\* address and the call is refused in the first pass.
C15_Witness ==
    \E c \in Callers :
        /\ callsMade = 2
        /\ last.ok /\ last.raw = raw[c]
        /\ err[c] = ERR_FIRST_PASS

\* C16: every request of the final retrieval is for the original URL, over
\* https; no request is sent to the target a redirect names.
C16_OnlyOriginalUrlRequested ==
    \A c \in Callers :
        \A i \in 1..Len(requested[c]) :
            /\ requested[c][i] = raw[c]
            /\ URLParse(requested[c][i]).protocol = "https:"

\* C20: when every check has passed and the fetch is done, safeFetch
\* resolves with the response the server sent, payload and content type
\* unchanged; until then it has resolved with nothing.
C20_ResponsePassedThrough ==
    \A c \in Callers :
        /\ pc[c] = "done" => served[c] \in Responses /\ result[c] = served[c]
        /\ pc[c] # "done" => result[c] = NoResponse

\* The avatar was served as image/png on the first request and returned.
C20_Witness ==
    \E c \in Callers :
        /\ pc[c] = "done"
        /\ requested[c] = <<raw[c]>>
        /\ served[c].contentType = "image/png"
        /\ result[c].body = "PNG-bytes"

\* What belongs to one call: its position, its locals and its outcome.
Local(c) == << pc[c], raw[c], ips[c], target[c], sock[c], timer[c],
               remote[c], err[c], phases[c], lookups[c], connects[c],
               fetches[c], fetchPeer[c], abandoned[c], requested[c],
               served[c], result[c] >>

\* C14: calls in flight at the same time share no state: a step (the start
\* of a call, a resolver answer, a timer, a socket event, the end of a
\* fetch) changes the position, locals and outcome of one call at most, so a
\* timer or socket event of one call never settles, times out or closes the
\* socket of another.
C14_CallsDoNotInterfere ==
    [][\A c, d \in Callers :
         c # d => (Local(c)' = Local(c) \/ Local(d)' = Local(d))]_vars

\* One call ran into its timer while the other, started at another time,
\* fetched the avatar.
C14_Witness ==
    \E c, d \in Callers :
        /\ c # d
        /\ err[c] = ERR_TIMEOUT
        /\ pc[d] = "done" /\ sock[d] = "ended"

\* C23: the retrieval is issued for the original URL string, and the
\* address its connection goes to is one the zone answers with at that
\* moment, whatever the guard resolved and verified before; it need not be
\* the verified address.
C23_FetchResolvesAgain ==
    [][\A c \in Callers :
         (fetchPeer'[c] # fetchPeer[c] /\ fetchPeer'[c] # NoAddr)
         => /\ requested[c] = <<raw[c]>>
            /\ \E i \in 1..Len(Lookup(URLParse(raw[c]).hostname)) :
                 Lookup(URLParse(raw[c]).hostname)[i] = fetchPeer'[c]
      ]_vars

\* The handshake reached the public address that was resolved, the answer
\* changed afterwards, the fetch connected to a private address, and the
\* call succeeded.
C23_Witness ==
    \E c \in Callers :
        /\ target[c] \in PublicAddrs /\ remote[c] = target[c]
        /\ fetchPeer[c] \in PrivateAddrs
        /\ fetchPeer[c] \notin { ips[c][i] : i \in 1..Len(ips[c]) }
        /\ pc[c] = "done" /\ err[c] = NoErr

\* C24: once the connect callback has seen a public peer within the
\* budget, the probe socket is closed and carries nothing, exactly one
\* fetch has been issued, for the original URL, and the call can fail with
\* a fetch error only.
C24_VerifiedThenOneFetch ==
    \A c \in Callers :
        remote[c] \in PublicAddrs
        => /\ timer[c] = "cleared" /\ elapsed[c] < HANDSHAKE_TIMEOUT_MS
           /\ sock[c] \in {"ended", "destroyed"}
           /\ fetches[c] = 1
           /\ Len(requested[c]) >= 1 /\ requested[c][1] = raw[c]
           /\ pc[c] \in {"fetching", "done", "failed"}
           /\ err[c] \in {NoErr, ERR_FETCH}
           /\ (pc[c] = "failed" <=> err[c] = ERR_FETCH)

\* A verified handshake, an error on the ended probe socket afterwards, and
\* the fetch completed all the same.
C24_Witness ==
    \E c \in Callers :
        /\ remote[c] \in PublicAddrs
        /\ sock[c] = "destroyed"
        /\ pc[c] = "done" /\ fetches[c] = 1

\* C26: a transport error before the timer is due fails the call with the
\* socket's error, which is not the timeout error; the timer is cancelled,
\* the socket destroyed, no peer was seen and no fetch is issued.
C26_TransportErrorFails ==
    /\ ERR_SOCKET # ERR_TIMEOUT
    /\ \A c \in Callers :
          err[c] = ERR_SOCKET
          => /\ pc[c] = "failed"
             /\ timer[c] = "cleared" /\ elapsed[c] < HANDSHAKE_TIMEOUT_MS
             /\ sock[c] = "destroyed"
             /\ remote[c] = NoAddr
             /\ connects[c] = 1
             /\ fetches[c] = 0 /\ requested[c] = <<>>

\* The transport error came after time had passed on the armed timer.
C26_Witness ==
    \E c \in Callers :
        err[c] = ERR_SOCKET /\ elapsed[c] > 0 /\ timer[c] = "cleared"

\* How the handshake promise of a call was settled, if it was.
HandshakeOutcome(c) ==
    CASE err[c] = ERR_TIMEOUT -> "timeout"
      [] err[c] = ERR_SOCKET -> "error"
      [] err[c] = ERR_POST -> "private"
      [] \E i \in 1..Len(phases[c]) : phases[c][i] = "PeerVerified" -> "verified"
      [] OTHER -> "pending"

\* C28: the handshake settles once.  While the call lasts, a settled
\* outcome stays what the first event made it, no later event issues a
\* fetch, and after a connect or an error the timer callback does not run.
C28_SettlesOnce ==
    [][\A c \in Callers :
         (HandshakeOutcome(c) # "pending" /\ pc'[c] # "idle")
         => /\ HandshakeOutcome(c)' = HandshakeOutcome(c)
            /\ fetches'[c] = fetches[c]
            /\ HandshakeOutcome(c) \in {"error", "private", "verified"}
               => timer'[c] = "cleared"
            /\ HandshakeOutcome(c) = "timeout" => timer'[c] = "fired"
      ]_vars

\* An error event arrived on the socket of a handshake the connect
\* callback had settled: the call went on to its fetch.
C28_Witness ==
    \E c \in Callers :
        /\ HandshakeOutcome(c) = "verified"
        /\ sock[c] = "destroyed"
        /\ pc[c] = "fetching" /\ fetchPeer[c] # NoAddr

\* C25: the handshake dials the first address of the answer on port 443,
\* whatever port the URL names and however many addresses the answer has;
\* it dials once, so no other address of the answer and no other port.
C25_DialsFirstAddressPort443 ==
    \A c \in Callers :
        connects[c] > 0
        => /\ connects[c] = 1
           /\ port[c] = 443
           /\ target[c] = IF Len(ips[c]) > 0 THEN ips[c][1] ELSE NoAddr

\* The URL names port 8443, the answer has two addresses, and the connect
\* callback has run for the dial.
C25_Witness ==
    \E c \in Callers :
        /\ URLParse(raw[c]).port = 8443
        /\ Len(ips[c]) = 2
        /\ connects[c] = 1 /\ remote[c] # NoAddr

\* The five error kinds of TransferErrorResult.
ErrorKinds == { "unauthorized", "bad_input", "insufficient_funds", "backend",
                "rate_limited" }

\* The promise of invocation t settles in this step.
Settles(t) == tfpc[t] = "session" /\ tfpc'[t] # "session"

\* The window of user u is open now and all its calls are used up.
WindowFull(u) ==
    /\ rateLimitMap[u] # NoEntry
    /\ now <= rateLimitMap[u].resetAt
    /\ admitted[u] = 10

\* C21: transferFunds never throws: whatever the payload and the state of
\* the rate limiter, its promise settles with a success result or with an
\* error result of one of the five kinds that carries an audit id.
C21_NeverThrows ==
    \A t \in Transfers :
        /\ tfpc[t] # "rejected"
        /\ tfpc[t] = "returned"
           => \/ transferResult[t].kind = "success"
              \/ /\ transferResult[t].kind = "error"
                 /\ transferResult[t].error \in ErrorKinds
                 /\ transferResult[t].id # ""

\* C22: the result is determined by the payload on every call: bad_input
\* when the schema refuses it, insufficient_funds when the schema accepts
\* it and the amount is above 50,000, success with the amount and the
\* account echoed otherwise.
C22_ResultDeterminedByPayload ==
    \A t \in Transfers :
        tfpc[t] \in {"returned", "rejected"}
        => transferResult[t] =
             IF ~SchemaAccepts(payload[t]) THEN Failure("bad_input")
             ELSE IF payload[t].amount.halves > 2 * 50000
             THEN Failure("insufficient_funds")
             ELSE Success(payload[t])

\* C27: for each user, the stored counter is between 1 and 10, at most 10
\* calls have been let through since the call that opened the window,
\* whose end is 60,000 ms after that call; and a call that settles while
\* the window is open and used up returns rate_limited.
C27_AtMostTenPerWindow ==
    /\ [](\A u \in Users :
            rateLimitMap[u] # NoEntry
            => /\ rateLimitMap[u].count \in 1..10
               /\ admitted[u] \in 1..10
               /\ rateLimitMap[u].resetAt = opened[u] + 60000)
    /\ [][\A t \in Transfers :
            (Settles(t) /\ "finance" \in session'[t].roles)
            => /\ WindowFull(session'[t].userId)
                  => transferResult'[t] = Failure("rate_limited")
               /\ transferResult'[t] = Failure("rate_limited")
                  => WindowFull(session'[t].userId)
         ]_vars

\* Two invocations for one user are in progress while one call is left in
\* the window: one of them got it, the other was refused.
C27_Witness ==
    \E u \in Users :
        /\ \A t \in Transfers : session[t].userId = u /\ tfpc[t] = "returned"
        /\ transferResult[1] = Failure("rate_limited")
        /\ transferResult[2].kind = "success"
        /\ admitted[u] = 10 /\ rateLimitMap[u].count = 10

\* C29: a call refused as rate_limited leaves the Map as it was, and a call
\* that settles after resetAt is let through and starts a window with
\* count 1 that ends 60,000 ms later.
C29_RefusalsLeaveWindowAlone ==
    [][\A t \in Transfers :
         (Settles(t) /\ "finance" \in session'[t].roles)
         => LET u == session'[t].userId
                e == rateLimitMap[u]
            IN  /\ transferResult'[t] = Failure("rate_limited")
                   => rateLimitMap' = rateLimitMap
                /\ (e # NoEntry /\ now > e.resetAt)
                   => /\ transferResult'[t] # Failure("rate_limited")
                      /\ rateLimitMap'[u] =
                           [count |-> 1, resetAt |-> now + 60000]
      ]_vars

\* A call of the user was refused in a window that has ended since, and
\* the call of the same user that came after resetAt opened a new window.
C29_Witness ==
    \E u \in Users :
        /\ session[1].userId = u /\ session[2].userId = u
        /\ transferResult[1] = Failure("rate_limited")
        /\ transferResult[2].kind = "success"
        /\ rateLimitMap[u].count = 1
        /\ opened[u] > 60000

\* The order of the checks of the body.
CheckOrder == <<"session", "role", "rate", "schema", "business">>

\* C30: the checks are made in the order session, role, rate limit,
\* schema, business logic; a call that settles as unauthorized leaves the
\* Map as it was and has validated nothing; a call the rate limit let
\* through has used one unit of the user's window, whatever it settles
\* with.
C30_ChecksInOrder ==
    [][\A t \in Transfers :
         Settles(t)
         => /\ IsPrefix(steps'[t], CheckOrder)
            /\ transferResult'[t] = Failure("unauthorized")
               => /\ rateLimitMap' = rateLimitMap
                  /\ steps'[t] \in { <<"session">>, <<"session", "role">> }
            /\ (Len(steps'[t]) >= 3 /\
                transferResult'[t] # Failure("rate_limited"))
               => LET u == session'[t].userId
                      e == rateLimitMap[u]
                  IN  /\ rateLimitMap'[u].count =
                           IF e = NoEntry \/ now > e.resetAt THEN 1
                           ELSE e.count + 1
                      /\ \A v \in Users \ {u} :
                           rateLimitMap'[v] = rateLimitMap[v]
      ]_vars

\* A user without the role was turned away after calls had used three
\* units of the window, which still has three units used.
C30_Witness ==
    \E t \in Transfers :
        /\ transferResult[t] = Failure("unauthorized")
        /\ steps[t] = <<"session", "role">>
        /\ rateLimitMap[session[t].userId].count = 3
====
